---- MODULE Spec2Model ----
(***************************************************************************)
(* CheckMk notification scripts.                                           *)
(*   scripts/notifications/glpi.py     ticketing notifier (GLPI REST API)  *)
(*   scripts/notifications/discord.py  chat notifier (Discord webhook)     *)
(* Every file access and every HTTP call of a script is one step, so that  *)
(* invocations of glpi.py can be run one after another (Spec) or           *)
(* interleaved (SpecConc).                                                 *)
(***************************************************************************)
EXTENDS Integers, Sequences, FiniteSets, TLC

VARIABLES
    stateFile,      \* glpi.py STATE_FILE: [exists, data], data maps fingerprint -> ticket id
    tickets,        \* GLPI server: sequence of tickets, the ticket id is the index
    pc,             \* per process: position in main()
    host,           \* per process: NOTIFY_HOSTNAME
    service,        \* per process: NOTIFY_SERVICEDESC
    state,          \* per process: NOTIFY_SERVICESTATE
    state_data,     \* per process: the map main() holds in memory
    session,        \* per process: the session token main() holds
    raised,         \* per process: the function whose exception is propagating
    calls,          \* per process: file and HTTP operations of this invocation, in order
    loaded,         \* per process: what read_state() returned in this invocation
    ticketsAtStart, \* per process: the server's tickets when this invocation started
    invocations,    \* number of invocations of main() started so far
    overlapped,     \* some invocation started while another one was running
    dedupLog,       \* discord.py STATE_FILE: [exists, lines]
    errorLog,       \* discord.py error log: number of lines
    now,            \* wall clock, in seconds
    posts,          \* webhook POSTs issued so far
    runs,           \* discord.py runs so far, one record each
    check           \* last is_duplicate_notification() call: argument and result

glpiVars == <<stateFile, tickets, pc, host, service, state, state_data, session,
              raised, calls, loaded, ticketsAtStart, invocations, overlapped>>
chatVars == <<dedupLog, errorLog, now, posts, runs, check>>
vars == <<glpiVars, chatVars>>

-----------------------------------------------------------------------------
(* Bounds *)

MaxInvocations == 3
MaxRuns == 3
MaxLogLen == 2

-----------------------------------------------------------------------------
(* Inputs *)

Procs == {"p1", "p2"}
SeqProcs == {"p1"}
Hosts == {"h1", "h1_a"}
Services == {"s", "a_s"}
States == {"CRITICAL", "WARNING", "OK", "UNKNOWN"}
HttpOutcomes == {"ok", "status_error", "conn_error"}
ConcHosts == {"h1"}
ConcStates == {"CRITICAL", "OK"}

-----------------------------------------------------------------------------
(* glpi.py *)

STATUS_NEW == 1
STATUS_SOLVED == 6

EmptyMap == [k \in {} |-> 0]
Put(m, k, v) == [x \in (DOMAIN m) \cup {k} |-> IF x = k THEN v ELSE m[x]]
Del(m, k) == [x \in (DOMAIN m) \ {k} |-> m[x]]

\* f"{host}_{service}"
Fingerprint(h, s) == h \o "_" \o s

\* read_state() that ignores the file
read_state_Fresh(file) == EmptyMap

\* read_state(): the map of the file, an empty map when the file is missing
read_state(file) == IF file.exists THEN file.data ELSE EmptyMap

\* write_state(): the whole map replaces the file
write_state(data) == [exists |-> TRUE, data |-> data]

\* res.raise_for_status(), or requests raising on a connection error
Raises(outcome) == outcome # "ok"

\* close_session() does not call raise_for_status(): only a connection error raises
CloseSessionRaises(outcome) == outcome = "conn_error"

\* the create branch without the lookup of the fingerprint
NeedsCreate_NoLookup(st, fp, data) == st \in {"CRITICAL", "WARNING"}

\* if state in ["CRITICAL", "WARNING"]: if fingerprint not in state_data
NeedsCreate(st, fp, data) == st \in {"CRITICAL", "WARNING"} /\ fp \notin DOMAIN data

\* elif state == "OK": if fingerprint in state_data
NeedsClose(st, fp, data) == st = "OK" /\ fp \in DOMAIN data

\* a try block without finally: an exception leaves main() at once
AfterTry_NoFinally(exc) == IF exc THEN "failed" ELSE "finally_close"

\* the try block is left for the finally block, with or without an exception
AfterTry(exc) == "finally_close"

\* a finally block that writes the state even when close_session raises
AfterCloseSession_Guarded(outcome) == "finally_write"

\* in the finally block write_state follows close_session unless close_session raises
AfterCloseSession(outcome) == IF CloseSessionRaises(outcome) THEN "failed" ELSE "finally_write"

Running(p) == pc[p] \in {"open_session", "try", "finally_close", "finally_write"}

Call(op, outcome) == [op |-> op, outcome |-> outcome]

glpiInit ==
    /\ stateFile = [exists |-> FALSE, data |-> EmptyMap]
    /\ tickets = <<>>
    /\ pc = [p \in Procs |-> "idle"]
    /\ host = [p \in Procs |-> "Unknown"]
    /\ service = [p \in Procs |-> "Service"]
    /\ state = [p \in Procs |-> "UNKNOWN"]
    /\ state_data = [p \in Procs |-> EmptyMap]
    /\ session = [p \in Procs |-> "none"]
    /\ raised = [p \in Procs |-> "none"]
    /\ calls = [p \in Procs |-> <<>>]
    /\ loaded = [p \in Procs |-> EmptyMap]
    /\ ticketsAtStart = [p \in Procs |-> <<>>]
    /\ invocations = 0
    /\ overlapped = FALSE

\* main(): the environment is read, the fingerprint computed, the state file loaded
Start(p, h, s, st) ==
    /\ ~Running(p)
    /\ invocations < MaxInvocations
    /\ invocations' = invocations + 1
    /\ host' = [host EXCEPT ![p] = h]
    /\ service' = [service EXCEPT ![p] = s]
    /\ state' = [state EXCEPT ![p] = st]
    /\ state_data' = [state_data EXCEPT ![p] = read_state(stateFile)]
    /\ loaded' = [loaded EXCEPT ![p] = read_state(stateFile)]
    /\ ticketsAtStart' = [ticketsAtStart EXCEPT ![p] = tickets]
    /\ session' = [session EXCEPT ![p] = "none"]
    /\ raised' = [raised EXCEPT ![p] = "none"]
    /\ calls' = [calls EXCEPT ![p] = <<Call("read_state", "ok")>>]
    /\ overlapped' = (overlapped \/ \E q \in Procs \ {p} : Running(q))
    /\ pc' = [pc EXCEPT ![p] = "open_session"]
    /\ UNCHANGED <<stateFile, tickets>>

\* session = open_session(): outside the try block, an exception ends main()
OpenSession(p, outcome) ==
    /\ pc[p] = "open_session"
    /\ calls' = [calls EXCEPT ![p] = Append(@, Call("initSession", outcome))]
    /\ IF Raises(outcome)
       THEN /\ raised' = [raised EXCEPT ![p] = "open_session"]
            /\ pc' = [pc EXCEPT ![p] = "failed"]
            /\ UNCHANGED session
       ELSE /\ session' = [session EXCEPT ![p] = "token"]
            /\ pc' = [pc EXCEPT ![p] = "try"]
            /\ UNCHANGED raised
    /\ UNCHANGED <<stateFile, tickets, host, service, state, state_data, loaded,
                   ticketsAtStart, invocations, overlapped>>

\* the try block of main(): create_ticket, close_ticket or nothing
TicketOp(p, outcome) ==
    LET fp == Fingerprint(host[p], service[p]) IN
    /\ pc[p] = "try"
    /\ IF NeedsCreate(state[p], fp, state_data[p])
       THEN /\ calls' = [calls EXCEPT ![p] = Append(@, Call("POST /Ticket", outcome))]
            /\ IF Raises(outcome)
               THEN /\ raised' = [raised EXCEPT ![p] = "create_ticket"]
                    /\ pc' = [pc EXCEPT ![p] = AfterTry(TRUE)]
                    /\ UNCHANGED <<tickets, state_data>>
               ELSE /\ tickets' = Append(tickets, [host |-> host[p], service |-> service[p],
                                                   status |-> STATUS_NEW])
                    /\ state_data' = [state_data EXCEPT ![p] = Put(@, fp, Len(tickets) + 1)]
                    /\ pc' = [pc EXCEPT ![p] = AfterTry(FALSE)]
                    /\ UNCHANGED raised
       ELSE IF NeedsClose(state[p], fp, state_data[p])
       THEN /\ calls' = [calls EXCEPT ![p] = Append(@, Call("PUT /Ticket", outcome))]
            /\ IF Raises(outcome)
               THEN /\ raised' = [raised EXCEPT ![p] = "close_ticket"]
                    /\ pc' = [pc EXCEPT ![p] = AfterTry(TRUE)]
                    /\ UNCHANGED <<tickets, state_data>>
               ELSE /\ tickets' = [tickets EXCEPT ![state_data[p][fp]].status = STATUS_SOLVED]
                    /\ state_data' = [state_data EXCEPT ![p] = Del(@, fp)]
                    /\ pc' = [pc EXCEPT ![p] = AfterTry(FALSE)]
                    /\ UNCHANGED raised
       ELSE /\ outcome = "ok"
            /\ pc' = [pc EXCEPT ![p] = AfterTry(FALSE)]
            /\ UNCHANGED <<tickets, state_data, raised, calls>>
    /\ UNCHANGED <<stateFile, host, service, state, session, loaded, ticketsAtStart,
                   invocations, overlapped>>

\* finally: close_session(session)
CloseSession(p, outcome) ==
    /\ pc[p] = "finally_close"
    /\ calls' = [calls EXCEPT ![p] = Append(@, Call("killSession", outcome))]
    /\ raised' = [raised EXCEPT ![p] = IF CloseSessionRaises(outcome) THEN "close_session" ELSE @]
    /\ pc' = [pc EXCEPT ![p] = AfterCloseSession(outcome)]
    /\ UNCHANGED <<stateFile, tickets, host, service, state, state_data, session, loaded,
                   ticketsAtStart, invocations, overlapped>>

\* finally: write_state(state_data); a pending exception then leaves main()
WriteState(p) ==
    /\ pc[p] = "finally_write"
    /\ stateFile' = write_state(state_data[p])
    /\ calls' = [calls EXCEPT ![p] = Append(@, Call("write_state", "ok"))]
    /\ pc' = [pc EXCEPT ![p] = IF raised[p] = "none" THEN "done" ELSE "failed"]
    /\ UNCHANGED <<tickets, host, service, state, state_data, session, raised, loaded,
                   ticketsAtStart, invocations, overlapped>>

\* One process: invocations of main() one after another, any HTTP call may fail
Next ==
    \/ \E p \in SeqProcs, h \in Hosts, s \in Services, st \in States :
          Start(p, h, s, st) /\ UNCHANGED chatVars
    \/ \E p \in SeqProcs, o \in HttpOutcomes : OpenSession(p, o) /\ UNCHANGED chatVars
    \/ \E p \in SeqProcs, o \in HttpOutcomes : TicketOp(p, o) /\ UNCHANGED chatVars
    \/ \E p \in SeqProcs, o \in HttpOutcomes : CloseSession(p, o) /\ UNCHANGED chatVars
    \/ \E p \in SeqProcs : WriteState(p) /\ UNCHANGED chatVars

chatIdle ==
    /\ dedupLog = [exists |-> FALSE, lines |-> <<>>]
    /\ errorLog = 0
    /\ now = 0
    /\ posts = 0
    /\ runs = <<>>
    /\ check = [called |-> FALSE]

Init == glpiInit /\ chatIdle

Spec == Init /\ [][Next]_vars

\* Two processes whose steps interleave, every HTTP call succeeds
NextConc ==
    \/ \E p \in Procs, h \in ConcHosts, s \in Services, st \in ConcStates :
          Start(p, h, s, st) /\ UNCHANGED chatVars
    \/ \E p \in Procs : OpenSession(p, "ok") /\ UNCHANGED chatVars
    \/ \E p \in Procs : TicketOp(p, "ok") /\ UNCHANGED chatVars
    \/ \E p \in Procs : CloseSession(p, "ok") /\ UNCHANGED chatVars
    \/ \E p \in Procs : WriteState(p) /\ UNCHANGED chatVars

SpecConc == Init /\ [][NextConc]_vars

-----------------------------------------------------------------------------
(* discord.py *)

DEDUP_WINDOW == 300
SECONDS_PER_DAY == 86400

ChatEvents ==
    { [host |-> "h1", service |-> "a_s", state |-> "CRITICAL"],
      [host |-> "h1_a", service |-> "s", state |-> "CRITICAL"],
      [host |-> "h1", service |-> "s", state |-> "OK"] }
TickSteps == {1, 299, 300}

\* The text of a log line is a sequence of tokens: a digest, a '|', a number, other text
Pipe == [pipe |-> TRUE]
FpTok(fp) == [fp |-> fp]
NumTok(n) == [num |-> n]
TxtTok(s) == [txt |-> s]

\* hashlib.md5(...).hexdigest(): a digest stands for the text it was computed from
MD5(text) == <<"md5", text>>

\* get_alert_fingerprint(): md5 of f"{host}_{service}_{state}"
get_alert_fingerprint(h, s, st) == MD5(h \o "_" \o s \o "_" \o st)

\* a line with the timestamp written first
FormatLine_Swapped(fingerprint, t) == <<NumTok(t), Pipe, FpTok(fingerprint)>>

\* f"{fingerprint}|{datetime.now().timestamp()}\n"
FormatLine(fingerprint, t) == <<FpTok(fingerprint), Pipe, NumTok(t)>>

\* record_notification(): the line is appended, the file is created when missing
record_notification(log, fingerprint, t) ==
    [exists |-> TRUE, lines |-> Append(log.lines, FormatLine(fingerprint, t))]

\* line.strip().split('|')
RECURSIVE SplitPipe(_)
SplitPipe(line) ==
    IF \A i \in DOMAIN line : line[i] # Pipe
    THEN <<line>>
    ELSE LET i == CHOOSE k \in DOMAIN line :
                      line[k] = Pipe /\ \A j \in 1..(k - 1) : line[j] # Pipe
         IN  <<SubSeq(line, 1, i - 1)>> \o SplitPipe(SubSeq(line, i + 1, Len(line)))

\* float(timestamp) succeeds
IsFloat(text) == Len(text) = 1 /\ DOMAIN text[1] = {"num"}

\* timedelta.seconds: the seconds of the normalised timedelta, the days are left out
TimedeltaSeconds(elapsed) == elapsed % SECONDS_PER_DAY

\* a loop body that passes over a line it cannot parse
LineResult_Skip(fingerprint, line, t) ==
    LET parts == SplitPipe(line) IN
    IF Len(parts) # 2 THEN "next"
    ELSE IF parts[1] # <<FpTok(fingerprint)>> THEN "next"
    ELSE IF ~IsFloat(parts[2]) THEN "next"
    ELSE IF TimedeltaSeconds(t - parts[2][1].num) < DEDUP_WINDOW THEN "dup"
    ELSE "next"

\* the body of the for loop of is_duplicate_notification(): the unpacking raises unless
\* there are two parts, float() is reached only when the fingerprints are equal
LineResult(fingerprint, line, t) ==
    LET parts == SplitPipe(line) IN
    IF Len(parts) # 2 THEN "exception"
    ELSE IF parts[1] # <<FpTok(fingerprint)>> THEN "next"
    ELSE IF ~IsFloat(parts[2]) THEN "exception"
    ELSE IF TimedeltaSeconds(t - parts[2][1].num) < DEDUP_WINDOW THEN "dup"
    ELSE "next"

\* for line in f.readlines(): the first line that returns or raises ends the loop
RECURSIVE Scan(_, _, _)
Scan(fingerprint, lines, t) ==
    IF lines = <<>> THEN "none"
    ELSE LET r == LineResult(fingerprint, Head(lines), t) IN
         IF r = "next" THEN Scan(fingerprint, Tail(lines), t) ELSE r

\* is_duplicate_notification(): try ... except: return False
is_duplicate_notification(fingerprint, log, t) ==
    LET r == IF ~log.exists THEN "none" ELSE Scan(fingerprint, log.lines, t)
    IN  [returned |-> (r = "dup"), raised |-> FALSE]

\* a script that does not call raise_for_status()
PostRaises_NoStatusCheck(outcome) == outcome = "conn_error"

\* requests.post raises on a connection error or timeout, raise_for_status() on 4xx/5xx
PostRaises(outcome) == outcome # "ok"

\* One run of discord.py at time now
Run(ev, outcome) ==
    LET alert_id == get_alert_fingerprint(ev.host, ev.service, ev.state)
        dup == is_duplicate_notification(alert_id, dedupLog, now).returned
        run == [event |-> ev, at |-> now, posted |-> ~dup,
                outcome |-> outcome,
                exit |-> IF ~dup /\ PostRaises(outcome) THEN 1 ELSE 0]
    IN  /\ runs' = Append(runs, run)
        /\ IF dup
           THEN \* exit(0)
                /\ outcome = "ok"
                /\ UNCHANGED <<dedupLog, errorLog, posts>>
           ELSE /\ posts' = posts + 1
                /\ IF PostRaises(outcome)
                   THEN \* except Exception: the error log gets a line, raise
                        /\ errorLog' = errorLog + 1
                        /\ UNCHANGED dedupLog
                   ELSE /\ dedupLog' = record_notification(dedupLog, alert_id, now)
                        /\ UNCHANGED errorLog
        /\ UNCHANGED <<now, check>>

\* Time passes between two runs
Tick(d) ==
    /\ runs # <<>>
    /\ now = runs[Len(runs)].at
    /\ now' = now + d
    /\ UNCHANGED <<dedupLog, errorLog, posts, runs, check>>

NextChat ==
    \/ \E ev \in ChatEvents, o \in HttpOutcomes :
          Len(runs) < MaxRuns /\ Run(ev, o) /\ UNCHANGED glpiVars
    \/ \E d \in TickSteps : Len(runs) < MaxRuns /\ Tick(d) /\ UNCHANGED glpiVars

SpecChat == Init /\ [][NextChat]_vars

\* is_duplicate_notification() on any log of at most MaxLogLen lines
ElapsedSamples == {0, 299, 300, 86399, 86400, 86699}
RecentSamples == {0, 299, 300}
SampleFingerprints == {get_alert_fingerprint(ev.host, ev.service, ev.state) : ev \in ChatEvents}
MalformedLines ==
    {<<FpTok(fp), Pipe, TxtTok("abc")>> : fp \in SampleFingerprints}
    \cup {<<FpTok(fp)>> : fp \in SampleFingerprints}
    \cup {<<FpTok(fp), Pipe, NumTok(100000), Pipe, NumTok(100000)>> : fp \in SampleFingerprints}
    \cup {<<>>}
SampleLines(elapsed) ==
    {FormatLine(fp, 100000 - e) : fp \in SampleFingerprints, e \in elapsed} \cup MalformedLines
SampleLogs(elapsed) == UNION {[1..n -> SampleLines(elapsed)] : n \in 0..MaxLogLen}

InitLog(elapsed) ==
    /\ glpiInit
    /\ \/ dedupLog = [exists |-> FALSE, lines |-> <<>>]
       \/ \E lines \in SampleLogs(elapsed) : dedupLog = [exists |-> TRUE, lines |-> lines]
    /\ errorLog = 0
    /\ now = 100000
    /\ posts = 0
    /\ runs = <<>>
    /\ check = [called |-> FALSE]

CheckDuplicate(fingerprint) ==
    /\ ~check.called
    /\ check' = [called |-> TRUE, fingerprint |-> fingerprint,
                 result |-> is_duplicate_notification(fingerprint, dedupLog, now)]
    /\ UNCHANGED <<dedupLog, errorLog, now, posts, runs>>

NextDedup == \E fp \in SampleFingerprints : CheckDuplicate(fp) /\ UNCHANGED glpiVars

\* entries of any age, up to more than a day
SpecDedup == InitLog(ElapsedSamples) /\ [][NextDedup]_vars

\* entries written within the last 300 seconds
SpecParse == InitLog(RecentSamples) /\ [][NextDedup]_vars

-----------------------------------------------------------------------------
(* Properties of glpi.py *)

Terminated(p) == pc[p] \in {"done", "failed"}
Count(p, op) == Cardinality({i \in DOMAIN calls[p] : calls[p][i].op = op})
Outcome(p, op) == {calls[p][i].outcome : i \in {j \in DOMAIN calls[p] : calls[p][j].op = op}}
AllOk(p) == \A i \in DOMAIN calls[p] : calls[p][i].outcome = "ok"
TicketOpRaised(p) ==
    \E i \in DOMAIN calls[p] :
        calls[p][i].op \in {"POST /Ticket", "PUT /Ticket"} /\ Raises(calls[p][i].outcome)
Fingerprints == {Fingerprint(h, s) : h \in Hosts, s \in Services}
FingerprintOf(p) == Fingerprint(host[p], service[p])
OpenTickets(fp) ==
    {i \in DOMAIN tickets :
        Fingerprint(tickets[i].host, tickets[i].service) = fp /\ tickets[i].status = STATUS_NEW}
OneOpenTicketPerEntry ==
    \A fp \in Fingerprints :
        /\ Cardinality(OpenTickets(fp)) <= 1
        /\ fp \in DOMAIN stateFile.data <=> OpenTickets(fp) # {}

\* C1: an invocation whose HTTP calls all succeed creates one ticket and stores its id
\* (WARNING/CRITICAL, fingerprint not in the loaded map), changes nothing (WARNING/CRITICAL,
\* fingerprint in the map; OK, fingerprint not in the map; any other state), or closes the
\* recorded ticket and removes the entry (OK, fingerprint in the map); the entries of the
\* other fingerprints are the loaded ones.
C1_Transition ==
    \A p \in SeqProcs :
        (pc[p] = "done" /\ AllOk(p)) =>
            LET f == FingerprintOf(p)
                M == loaded[p]
                id == Len(ticketsAtStart[p]) + 1
            IN  /\ stateFile.exists
                /\ IF state[p] \in {"WARNING", "CRITICAL"} /\ f \notin DOMAIN M
                   THEN /\ Count(p, "POST /Ticket") = 1
                        /\ Count(p, "PUT /Ticket") = 0
                        /\ tickets = Append(ticketsAtStart[p],
                                            [host |-> host[p], service |-> service[p],
                                             status |-> STATUS_NEW])
                        /\ stateFile.data = Put(M, f, id)
                   ELSE IF state[p] = "OK" /\ f \in DOMAIN M
                   THEN /\ Count(p, "POST /Ticket") = 0
                        /\ Count(p, "PUT /Ticket") = 1
                        /\ tickets = [ticketsAtStart[p] EXCEPT ![M[f]].status = STATUS_SOLVED]
                        /\ stateFile.data = Del(M, f)
                   ELSE /\ Count(p, "POST /Ticket") = 0
                        /\ Count(p, "PUT /Ticket") = 0
                        /\ tickets = ticketsAtStart[p]
                        /\ stateFile.data = M

\* an OK event closed the ticket that an earlier invocation recorded, another entry was kept
C1_Witness ==
    \E p \in SeqProcs :
        /\ pc[p] = "done" /\ AllOk(p)
        /\ state[p] = "OK"
        /\ FingerprintOf(p) \in DOMAIN loaded[p]
        /\ DOMAIN stateFile.data # {}

\* C2: between invocations every fingerprint has at most one open ticket on the server,
\* and the state file has an entry for a fingerprint exactly when it has an open ticket.
C2_OneOpenTicket ==
    (\A p \in SeqProcs : ~Running(p)) => OneOpenTicketPerEntry

\* C3: an invocation that obtained a session token issues killSession exactly once before
\* it terminates, also when create_ticket or close_ticket raised.
C3_SessionClosed ==
    \A p \in SeqProcs :
        /\ Count(p, "killSession") <= 1
        /\ (session[p] = "token" /\ Terminated(p)) => Count(p, "killSession") = 1
        /\ (session[p] = "token" /\ pc[p] = "finally_write") => Count(p, "killSession") = 1

\* create_ticket raised, killSession was issued, then the invocation failed
C3_Witness ==
    \E p \in SeqProcs :
        /\ pc[p] = "failed"
        /\ raised[p] = "create_ticket"
        /\ Count(p, "killSession") = 1

\* C4: an invocation that opened a session ends with write_state, issued after killSession,
\* whatever create_ticket, close_ticket or close_session did.
C4_StateWritten ==
    \A p \in SeqProcs :
        (session[p] = "token" /\ Terminated(p)) =>
            /\ calls[p][Len(calls[p])].op = "write_state"
            /\ calls[p][Len(calls[p]) - 1].op = "killSession"

\* C8 as stated: when create_ticket or close_ticket raises, main() ends without write_state.
C8_NoWriteAfterRaise ==
    \A p \in SeqProcs :
        (Terminated(p) /\ TicketOpRaised(p)) =>
            pc[p] = "failed" /\ Count(p, "write_state") = 0

\* C8: when create_ticket or close_ticket raises, the invocation fails, but only after
\* killSession was issued, and write_state ran exactly when close_session did not raise;
\* the map it wrote is the loaded one.
C8_WriteAfterRaise ==
    \A p \in SeqProcs :
        (Terminated(p) /\ TicketOpRaised(p)) =>
            /\ pc[p] = "failed"
            /\ Count(p, "killSession") = 1
            /\ Count(p, "write_state") = 1 <=> Outcome(p, "killSession") # {"conn_error"}
            /\ Count(p, "write_state") = 1 =>
                  /\ calls[p][Len(calls[p])].op = "write_state"
                  /\ stateFile = write_state(loaded[p])

\* close_ticket raised and the state file was written all the same, with its entry kept
C8_Witness ==
    \E p \in SeqProcs :
        /\ pc[p] = "failed"
        /\ raised[p] = "close_ticket"
        /\ Count(p, "write_state") = 1
        /\ FingerprintOf(p) \in DOMAIN stateFile.data

\* C10: when every HTTP call succeeds, a second open ticket for a fingerprint or an open
\* ticket without entry comes only from invocations that overlap; interleaved invocations
\* do reach both (C10_Witness).
C10_OnlyRaces ==
    (~overlapped /\ \A p \in Procs : ~Running(p)) => OneOpenTicketPerEntry

\* q read the map without its fingerprint and created the second open ticket for it; p
\* created a ticket for another fingerprint and wrote its entry, and q's later write of
\* the whole map discarded that entry
C10_Witness ==
    \E p, q \in Procs :
        /\ p # q /\ Terminated(p) /\ Terminated(q)
        /\ FingerprintOf(p) # FingerprintOf(q)
        /\ FingerprintOf(q) \notin DOMAIN loaded[q]
        /\ Count(q, "POST /Ticket") = 1
        /\ Cardinality(OpenTickets(FingerprintOf(q))) = 2
        /\ Count(p, "POST /Ticket") = 1
        /\ Count(p, "write_state") = 1
        /\ FingerprintOf(p) \in DOMAIN state_data[p]
        /\ stateFile.data = state_data[q]
        /\ FingerprintOf(p) \notin DOMAIN stateFile.data

-----------------------------------------------------------------------------
(* Properties of discord.py *)

PipeCount(line) == Cardinality({i \in DOMAIN line : line[i] = Pipe})
WellFormedLine(line) ==
    /\ Len(line) = 3
    /\ DOMAIN line[1] = {"fp"}
    /\ line[2] = Pipe
    /\ DOMAIN line[3] = {"num"}
\* no '|', more than one '|', or a timestamp that is not a number
CannotParse(line) ==
    \/ PipeCount(line) # 1
    \/ Len(line) = 0
    \/ DOMAIN line[Len(line)] # {"num"}
\* the line is 'fingerprint|timestamp' for this fingerprint
StoredFor(line, fingerprint) == WellFormedLine(line) /\ line[1].fp = fingerprint
\* parsing the line raises: the unpacking does, or float() on the timestamp of a line
\* that carries this fingerprint
ParseRaises(line, fingerprint) ==
    \/ PipeCount(line) # 1
    \/ /\ Len(line) >= 1
       /\ line[1] = FpTok(fingerprint)
       /\ line[2] = Pipe
       /\ (Len(line) = 2 \/ DOMAIN line[Len(line)] # {"num"})
\* the line makes the check return duplicate
ReturnsDuplicate(line, fingerprint, t) ==
    /\ StoredFor(line, fingerprint)
    /\ TimedeltaSeconds(t - line[3].num) < DEDUP_WINDOW

\* C5: on a log of well-formed lines the check returns duplicate exactly when a line has
\* the fingerprint and a timestamp less than 300 seconds old.
C5_Window ==
    (check.called /\ \A i \in DOMAIN dedupLog.lines : WellFormedLine(dedupLog.lines[i])) =>
        (check.result.returned <=>
            \E i \in DOMAIN dedupLog.lines :
                /\ StoredFor(dedupLog.lines[i], check.fingerprint)
                /\ now - dedupLog.lines[i][3].num < DEDUP_WINDOW)

\* C6: of two runs for the same (host, service, state), the first with a successful POST
\* and the second less than 300 seconds later, only the first issues a POST; the second
\* exits with status 0.
C6_Idempotent ==
    \A i, j \in DOMAIN runs :
        ( /\ i < j
          /\ runs[i].event = runs[j].event
          /\ runs[i].posted /\ runs[i].outcome = "ok"
          /\ runs[j].at - runs[i].at < DEDUP_WINDOW ) =>
            ~runs[j].posted /\ runs[j].exit = 0

\* two runs for one event, 299 seconds apart: one POST
C6_Witness ==
    /\ Len(runs) = 2
    /\ runs[1].event = runs[2].event
    /\ runs[1].posted /\ runs[1].outcome = "ok"
    /\ runs[2].at - runs[1].at = 299
    /\ posts = 1

\* C7: a run appends 'fingerprint|timestamp' to the dedup log exactly when its POST
\* succeeded; when the POST fails it appends one line to the error log, leaves the dedup
\* log as it was and ends in failure.
C7_RecordOnSuccess ==
    [][ Len(runs') = Len(runs) + 1 =>
          LET r == runs'[Len(runs')]
              fp == get_alert_fingerprint(r.event.host, r.event.service, r.event.state)
              success == r.posted /\ r.outcome = "ok"
          IN  /\ success =>
                    /\ dedupLog'.exists
                    /\ dedupLog'.lines = Append(dedupLog.lines, <<FpTok(fp), Pipe, NumTok(r.at)>>)
                    /\ errorLog' = errorLog
                    /\ r.exit = 0
              /\ ~success => dedupLog' = dedupLog
              /\ (r.posted /\ r.outcome # "ok") =>
                    /\ errorLog' = errorLog + 1
                    /\ r.exit = 1
              /\ ~r.posted => errorLog' = errorLog /\ posts' = posts /\ r.exit = 0
              /\ r.posted => posts' = posts + 1
      ]_vars

\* a run whose POST got an error status: an error line, no dedup line, failure
C7_Witness ==
    /\ Len(runs) = 2
    /\ runs[1].outcome = "ok"
    /\ runs[2].posted /\ runs[2].outcome = "status_error" /\ runs[2].exit = 1
    /\ errorLog = 1
    /\ Len(dedupLog.lines) = 1

\* C9 as stated: the check never raises, a missing file gives not-duplicate, and so does
\* a log with a line that cannot be parsed.
C9_MalformedNotDuplicate ==
    check.called =>
        /\ ~check.result.raised
        /\ ~dedupLog.exists => ~check.result.returned
        /\ (\E i \in DOMAIN dedupLog.lines : CannotParse(dedupLog.lines[i])) =>
              ~check.result.returned

\* C9: the check never raises, a missing file gives not-duplicate, and so does a line on
\* which parsing raises when no line before it makes the check return duplicate.
C9_FailsOpen ==
    check.called =>
        /\ ~check.result.raised
        /\ ~dedupLog.exists => ~check.result.returned
        /\ \A i \in DOMAIN dedupLog.lines :
              ( /\ ParseRaises(dedupLog.lines[i], check.fingerprint)
                /\ \A j \in 1..(i - 1) :
                      ~ReturnsDuplicate(dedupLog.lines[j], check.fingerprint, now) ) =>
                    ~check.result.returned

\* a line without '|' comes first: not-duplicate, though the next line is a fresh entry
C9_Witness ==
    /\ check.called
    /\ Len(dedupLog.lines) = 2
    /\ PipeCount(dedupLog.lines[1]) = 0
    /\ dedupLog.lines[2] = <<FpTok(check.fingerprint), Pipe, NumTok(now)>>
    /\ ~check.result.returned

====
